---------------------------- MODULE Spec2Model ----------------------------
(***************************************************************************)
(* Model of the registry build script (src/README.md, lines 69-362): the   *)
(* tree loader, the axis pivot, the deep merge, the snapshot fold with its *)
(* manifest, and the publisher.                                            *)
(*                                                                         *)
(* JavaScript values are records [t, s, e]:                                *)
(*   t = "o"  a plain object, e its own properties in enumeration order    *)
(*   t = "a"  an array, e its elements keyed "0", "1", ...                 *)
(*   t = "s"  a string s          t = "n"  a number printed as s           *)
(*   t = "u"  undefined                                                    *)
(* Nodes of the disk are records of the same shape:                        *)
(*   t = "dir"   a directory, e its entries in readdir order               *)
(*   t = "file"  a file with text s; e holds what JSON.parse returns for   *)
(*               the text, and is empty when JSON.parse throws             *)
(***************************************************************************)
EXTENDS Integers, Sequences, FiniteSets, TLC

VARIABLES
    disk,         \* [registry, site, out]: the three directories of the run
    pc,           \* position of the script
    objectTree,   \* const objectTree (line 302)
    switched,     \* const switched (line 303)
    finalfiles,   \* const finalfiles (line 332)
    indexmap,     \* const indexmap (line 331)
    platformIdx,  \* position of the forEach over Object.entries(switched)
    index,        \* the reduce's index over the reversed year keys
    o1,           \* the reduce's accumulator
    filesWritten, \* publishPathContent's counter (line 105)
    exitCode,     \* process exit status, -1 while running
    mTarget,      \* deepMerge: target
    mSources,     \* deepMerge: the rest parameter
    mBefore,      \* deepMerge: target as the last call received it
    mSource,      \* deepMerge: the source the last call shifted
    mFirst,       \* deepMerge: the arguments of the outermost call
    pvInput,      \* inverseNestedObject: the mapping first given
    pvValue,      \* inverseNestedObject: the latest result
    pvCount       \* inverseNestedObject: number of applications so far

vars == <<disk, pc, objectTree, switched, finalfiles, indexmap, platformIdx,
          index, o1, filesWritten, exitCode, mTarget, mSources, mBefore,
          mSource, mFirst, pvInput, pvValue, pvCount>>

mergeVars == <<mTarget, mSources, mBefore, mSource, mFirst>>
pivotVars == <<pvInput, pvValue, pvCount>>
buildVars == <<disk, objectTree, switched, finalfiles, indexmap,
               platformIdx, index, o1, filesWritten, exitCode>>

-----------------------------------------------------------------------------
(* Bounds of the model *)

NumYears == 2
MaxSources == 2
MaxOuter == 2

-----------------------------------------------------------------------------
(* JavaScript values *)

Undefined == [t |-> "u", s |-> "", e |-> <<>>]
\* No value: the place of a parameter before any call
NoSource == [t |-> "none", s |-> "", e |-> <<>>]
Str(x) == [t |-> "s", s |-> x, e |-> <<>>]
Num(n) == [t |-> "n", s |-> ToString(n), e |-> <<>>]
Obj(es) == [t |-> "o", s |-> "", e |-> es]
P(key, val) == [k |-> key, v |-> val]
Arr(items) == [t |-> "a", s |-> "", e |-> [i \in DOMAIN items |-> P(ToString(i - 1), items[i])]]
EmptyObject == Obj(<<>>)

Keys(o) == [i \in DOMAIN o.e |-> o.e[i].k]
KeySet(o) == {o.e[i].k : i \in DOMAIN o.e}
Has(o, key) == \E i \in DOMAIN o.e : o.e[i].k = key
Get(o, key) ==
    IF Has(o, key) THEN o.e[CHOOSE i \in DOMAIN o.e : o.e[i].k = key].v ELSE Undefined

Digits == <<"0", "1", "2", "3", "4", "5", "6", "7", "8", "9">>
IsDigit(c) == \E d \in DOMAIN Digits : Digits[d] = c
DigitVal(c) == (CHOOSE d \in DOMAIN Digits : Digits[d] = c) - 1

RECURSIVE NumVal(_)
NumVal(key) ==
    IF Len(key) = 0 THEN 0
    ELSE 10 * NumVal(SubSeq(key, 1, Len(key) - 1)) + DigitVal(SubSeq(key, Len(key), Len(key)))

\* A property key that is an array index: a canonical decimal numeral. Keys of
\* ten or more digits are outside the model's keys.
IsArrayIndex(key) ==
    /\ Len(key) \in 1..9
    /\ \A i \in 1..Len(key) : IsDigit(SubSeq(key, i, i))
    /\ Len(key) > 1 => SubSeq(key, 1, 1) # "0"

\* Where a new own property lands in the enumeration order: array indices in
\* ascending numeric order first, then the other keys in creation order.
InsertAt(es, key) ==
    IF IsArrayIndex(key)
    THEN 1 + Cardinality({i \in DOMAIN es :
                            IsArrayIndex(es[i].k) /\ NumVal(es[i].k) < NumVal(key)})
    ELSE Len(es) + 1

\* o[key] = val
Put(o, key, val) ==
    IF Has(o, key)
    THEN [o EXCEPT !.e = [i \in DOMAIN @ |-> IF @[i].k = key THEN P(key, val) ELSE @[i]]]
    ELSE LET at == InsertAt(o.e, key)
         IN [o EXCEPT !.e = SubSeq(@, 1, at - 1) \o <<P(key, val)>> \o SubSeq(@, at, Len(@))]

\* typeof val === 'object' && val !== null
TypeofObject(val) == val.t \in {"o", "a"}

\* val => typeof val === 'object' && val !== null && !Array.isArray(val)
isObject(val) == val.t = "o"

RECURSIVE JSONstringify(_), StringifyEntries(_, _, _)
StringifyEntries(es, i, isArray) ==
    IF i > Len(es) THEN ""
    ELSE (IF i > 1 THEN "," ELSE "")
         \o (IF isArray THEN "" ELSE "\"" \o es[i].k \o "\":")
         \o JSONstringify(es[i].v)
         \o StringifyEntries(es, i + 1, isArray)

JSONstringify(val) ==
    CASE val.t = "s" -> "\"" \o val.s \o "\""
      [] val.t = "n" -> val.s
      [] val.t = "o" -> "{" \o StringifyEntries(val.e, 1, FALSE) \o "}"
      [] val.t = "a" -> "[" \o StringifyEntries(val.e, 1, TRUE) \o "]"
      [] OTHER -> "null"

\* JSON.parse(JSON.stringify(val)): a fresh value with the same own
\* properties; properties holding undefined are not serialized.
RECURSIVE JSONclone(_), CloneEntries(_, _, _)
CloneEntries(es, i, isArray) ==
    IF i > Len(es) THEN <<>>
    ELSE (IF es[i].v.t = "u" /\ ~isArray THEN <<>> ELSE <<P(es[i].k, JSONclone(es[i].v))>>)
         \o CloneEntries(es, i + 1, isArray)

JSONclone(val) ==
    IF val.t \in {"o", "a"} THEN [val EXCEPT !.e = CloneEntries(val.e, 1, val.t = "a")]
    ELSE val

\* String.prototype.padStart(width, "0")
RECURSIVE padStart(_, _)
padStart(str, width) == IF Len(str) >= width THEN str ELSE padStart("0" \o str, width)

startsWith(str, prefix) ==
    Len(str) >= Len(prefix) /\ SubSeq(str, 1, Len(prefix)) = prefix
endsWith(str, suffix) ==
    Len(str) >= Len(suffix) /\ SubSeq(str, Len(str) - Len(suffix) + 1, Len(str)) = suffix

-----------------------------------------------------------------------------
(* The disk *)

Dir(items) == [t |-> "dir", s |-> "", e |-> items]
\* A file whose text is the serialization of val, so JSON.parse returns val.
JsonFile(val) == [t |-> "file", s |-> JSONstringify(val), e |-> <<P("", val)>>]
\* A file whose text is not JSON: JSON.parse throws on it.
TextFile(text) == [t |-> "file", s |-> text, e |-> <<>>]
Absent == [t |-> "absent", s |-> "", e |-> <<>>]

readFileSync(node) == node.s
JSONparseThrows(node) == node.e = <<>>
JSONparse(node) == node.e[1].v

-----------------------------------------------------------------------------
(* createJsonObjectTree, lines 143-175 *)

isHiddenNever(item) == FALSE

\* item.startsWith(".")
isHidden(item) == startsWith(item, ".")

keepSubTreeAlways(subTree) == TRUE

\* Object.keys(subTree).length > 0, line 158
keepSubTree(subTree) == Len(Keys(subTree)) > 0

RECURSIVE createJsonObjectTree(_), JsonTreeItems(_, _, _)
JsonTreeItems(items, i, tree) ==
    IF i > Len(items) THEN tree
    ELSE LET item == items[i].k
             node == items[i].v
         IN IF isHidden(item) THEN JsonTreeItems(items, i + 1, tree)
            ELSE IF node.t = "dir"
            THEN LET subTree == createJsonObjectTree(node)
                 IN JsonTreeItems(items, i + 1,
                        IF keepSubTree(subTree) THEN Put(tree, item, subTree) ELSE tree)
            ELSE IF node.t = "file" /\ endsWith(item, ".json")
            THEN JsonTreeItems(items, i + 1,
                     IF JSONparseThrows(node) THEN tree
                     ELSE Put(tree, item, JSONparse(node)))
            ELSE JsonTreeItems(items, i + 1, tree)

createJsonObjectTree(dirNode) == JsonTreeItems(dirNode.e, 1, EmptyObject)

(* createFileTree, lines 177-200 *)

RECURSIVE FileTreeItems(_, _, _)
FileTreeItems(items, i, tree) ==
    IF i > Len(items) THEN tree
    ELSE LET item == items[i].k
             node == items[i].v
         IN IF node.t = "dir"
            THEN LET subTree == createJsonObjectTree(node)
                 IN FileTreeItems(items, i + 1,
                        IF Len(Keys(subTree)) > 0 THEN Put(tree, item, subTree) ELSE tree)
            ELSE IF node.t = "file"
            THEN FileTreeItems(items, i + 1, Put(tree, item, Str(readFileSync(node))))
            ELSE FileTreeItems(items, i + 1, tree)

createFileTree(dirNode) == FileTreeItems(dirNode.e, 1, EmptyObject)

-----------------------------------------------------------------------------
(* inverseNestedObject, lines 207-246 *)

\* Property names every object inherits from Object.prototype with a function
\* as value. inverted[key] is truthy for them although inverted has no such
\* own property. ("__proto__", whose value is Object.prototype itself, is not
\* among the model's keys.)
InheritedKeys == {"constructor", "toString", "valueOf", "hasOwnProperty",
                  "isPrototypeOf", "propertyIsEnumerable", "toLocaleString"}

InitLevel2Always(inverted, level2Key) == Put(inverted, level2Key, EmptyObject)

\* if (!inverted[level2Key]) { inverted[level2Key] = {}; }
InitLevel2(inverted, level2Key) ==
    IF Has(inverted, level2Key) \/ level2Key \in InheritedKeys
    THEN inverted
    ELSE Put(inverted, level2Key, EmptyObject)

\* inverted[level2Key][level1Key] = value. When inverted[level2Key] is an
\* inherited function the property lands on that function and inverted keeps
\* its own properties.
AssignLevel1(inverted, level2Key, level1Key, value) ==
    IF Has(inverted, level2Key)
    THEN Put(inverted, level2Key, Put(Get(inverted, level2Key), level1Key, value))
    ELSE inverted

RECURSIVE InvertLevel2(_, _, _, _)
InvertLevel2(level1Key, level2Object, j, inverted) ==
    IF j > Len(level2Object.e) THEN inverted
    ELSE LET level2Key == level2Object.e[j].k
             value == level2Object.e[j].v
         IN InvertLevel2(level1Key, level2Object, j + 1,
                AssignLevel1(InitLevel2(inverted, level2Key), level2Key, level1Key, value))

RECURSIVE InvertLevel1(_, _, _)
InvertLevel1(originalObject, i, inverted) ==
    IF i > Len(originalObject.e) THEN inverted
    ELSE LET level1Key == originalObject.e[i].k
             level2Object == originalObject.e[i].v
         IN IF ~TypeofObject(level2Object)
            THEN InvertLevel1(originalObject, i + 1, inverted)
            ELSE InvertLevel1(originalObject, i + 1,
                     InvertLevel2(level1Key, level2Object, 1, inverted))

inverseNestedObject(originalObject) == InvertLevel1(originalObject, 1, EmptyObject)

-----------------------------------------------------------------------------
(* deepMerge, lines 255-287 *)

RECURSIVE deepMerge(_, _), MergeSource(_, _, _), MergeKey(_, _, _)

\* Object.assign in place of the three-way branch.
MergeKeyShallow(target, key, sourceValue) == Put(target, key, sourceValue)

\* The body of the for-in loop, lines 265-281
MergeKey(target, key, sourceValue) ==
    LET targetValue == Get(target, key)
    IN IF isObject(sourceValue) /\ isObject(targetValue)
       THEN Put(target, key, deepMerge(targetValue, <<sourceValue>>))
       ELSE IF isObject(sourceValue)
       THEN Put(target, key, JSONclone(sourceValue))
       ELSE Put(target, key, sourceValue)

\* The source taken as the new accumulator instead of merged into it.
MergeSourceReplacing(target, source, i) == IF source.t = "o" THEN source ELSE target

\* for (const key in source), lines 263-283
MergeSource(target, source, i) ==
    IF i > Len(source.e) THEN target
    ELSE MergeSource(MergeKey(target, source.e[i].k, source.e[i].v), source, i + 1)

deepMerge(target, sources) ==
    IF Len(sources) = 0 THEN target
    ELSE deepMerge(MergeSource(target, Head(sources), 1), Tail(sources))

-----------------------------------------------------------------------------
(* Main execution, lines 290-362 *)

OUT == "./out"
SITE == "./sitesrc"
REGISTRY == "./registry"

\* The innermost reduce, lines 309-312
RECURSIVE ReduceLevel3(_, _, _, _)
ReduceLevel3(k2, entries, i, o3) ==
    IF i > Len(entries) THEN o3
    ELSE LET k3 == entries[i].k
             v3 == entries[i].v
         IN ReduceLevel3(k2, entries, i + 1,
                Put(o3, k3, IF k2 = "values.json" THEN inverseNestedObject(v3) ELSE v3))

\* lines 307-315
RECURSIVE ReduceLevel2(_, _, _)
ReduceLevel2(entries, i, o2) ==
    IF i > Len(entries) THEN o2
    ELSE LET k2 == entries[i].k
             v2 == entries[i].v
         IN ReduceLevel2(entries, i + 1,
                Put(o2, k2, ReduceLevel3(k2, inverseNestedObject(v2).e, 1, EmptyObject)))

\* lines 305-318
RECURSIVE ReduceLevel1(_, _, _)
ReduceLevel1(entries, i, acc) ==
    IF i > Len(entries) THEN acc
    ELSE LET k1 == entries[i].k
             v1 == entries[i].v
         IN ReduceLevel1(entries, i + 1,
                Put(acc, k1, ReduceLevel2(inverseNestedObject(v1).e, 1, EmptyObject)))

\* lines 303-321
RECURSIVE ReduceLevel0(_, _, _)
ReduceLevel0(entries, i, o0) ==
    IF i > Len(entries) THEN o0
    ELSE LET k0 == entries[i].k
             v0 == entries[i].v
         IN ReduceLevel0(entries, i + 1,
                Put(o0, k0, ReduceLevel1(inverseNestedObject(v0).e, 1, EmptyObject)))

Switch(tree) == ReduceLevel0(tree.e, 1, EmptyObject)

\* const filemaps, lines 323-329
filemaps ==
    Obj(<<P("atrules.json", Str("atrules")),
          P("attributes.json", Str("attributes")),
          P("classes.json", Str("classes")),
          P("elements.json", Str("elements")),
          P("values.json", Str("values"))>>)

filemapsUnrenamed(group) == Str(group)

\* filemaps[group] for a group that has an entry
filemapsAt(group) == Get(filemaps, group)

\* The value a throwing reduce stands for: a TypeError propagates instead.
Thrown == [t |-> "throw", s |-> "TypeError", e |-> <<>>]

\* The reduce over a year's groups, lines 340-345. The callback returns o2
\* only inside the if: after a group without an entry in filemaps the
\* accumulator is undefined, and o2[...] = v2 on undefined throws.
RECURSIVE RenameGroups(_, _, _)
RenameGroups(entries, i, o2) ==
    IF i > Len(entries) THEN o2
    ELSE LET group == entries[i].k
             v2 == entries[i].v
         IN IF Has(filemaps, group)
            THEN IF o2.t = "u" THEN Thrown
                 ELSE RenameGroups(entries, i + 1, Put(o2, filemapsAt(group).s, v2))
            ELSE RenameGroups(entries, i + 1, Undefined)

Reverse(q) == [i \in DOMAIN q |-> q[Len(q) + 1 - i]]

YearOrderUnreversed(years) == Keys(years)

\* Object.keys(years).reverse(), line 339
YearOrder(years) == Reverse(Keys(years))

fromName(platform, year) ==
    "platform/" \o platform \o "--from-" \o padStart(year, 4) \o ".json"
lastName(platform, n) ==
    "platform/" \o platform \o "--last-" \o padStart(ToString(n), 4) \o ".json"
lastLabel(n) == ToString(n) \o " year"

\* The for-in loop of publishPathContent, lines 107-128: the files written
\* before the first entry whose content writeFileSync rejects (a value that
\* is not a string), and whether there was one.
RECURSIVE WriteFiles(_, _, _)
WriteFiles(entries, i, written) ==
    IF i > Len(entries) THEN [dir |-> written, threw |-> FALSE]
    ELSE IF entries[i].v.t # "s" THEN [dir |-> written, threw |-> TRUE]
    ELSE WriteFiles(entries, i + 1, Put(written, entries[i].k, entries[i].v))

-----------------------------------------------------------------------------
(* The disks the script is run on *)

YearNames == <<"2023", "2024", "2025", "2026", "2027">>
Years == {YearNames[i] : i \in 1..NumYears}

ClassesFoo == Obj(<<P("foo", Str("-webkit-foo"))>>)
ClassesBar == Obj(<<P("bar", Str("-webkit-bar"))>>)
ClassesFooOld == Obj(<<P("foo", Str("-khtml-foo")), P("baz", Str("-khtml-baz"))>>)
ValuesFlex == Obj(<<P("display", Obj(<<P("flex", Str("-webkit-flex"))>>))>>)
ElementsBar == Obj(<<P("bar", Str("-webkit-bar"))>>)
Secret == Obj(<<P("secret", Str("-hidden-secret"))>>)

\* The year directories a vendor may hold: one group next to a hidden file;
\* two groups, one of them values, next to a hidden directory; a group the
\* lookup does not know after a known one, and before a known one; and no
\* readable JSON at all.
YearDirs ==
    { Dir(<<P("notes.txt", TextFile("draft")),
            P("classes.json", JsonFile(ClassesFoo)),
            P(".draft.json", JsonFile(Secret))>>),
      Dir(<<P(".draft", Dir(<<P("classes.json", JsonFile(Secret))>>)),
            P("values.json", JsonFile(ValuesFlex)),
            P("classes.json", JsonFile(ClassesFooOld))>>),
      Dir(<<P("classes.json", JsonFile(ClassesFoo)),
            P("extra.json", JsonFile(ClassesBar))>>),
      Dir(<<P("extra.json", JsonFile(ClassesBar)),
            P("elements.json", JsonFile(ElementsBar))>>),
      Dir(<<P("README.md", TextFile("# notes")),
            P("classes.json", TextFile("{\"foo\":"))>>) }

MozYearDirs ==
    { Dir(<<P("classes.json", JsonFile(Obj(<<P("foo", Str("-moz-foo"))>>))),
            P("values.json",
              JsonFile(Obj(<<P("display", Obj(<<P("flex", Str("-moz-box"))>>))>>)))>>) }

\* The entries of a vendor directory: for each year either no directory or
\* one of dirs, listed in the order of pick's domain.
RECURSIVE YearEntries(_, _)
YearEntries(pick, i) ==
    IF i > NumYears THEN <<>>
    ELSE (IF pick[YearNames[i]] = Absent THEN <<>>
          ELSE <<P(YearNames[i], pick[YearNames[i]])>>)
         \o YearEntries(pick, i + 1)

\* The vendor directory of the contributor template: year folders, the .year
\* scaffold and the licence.
WebkitDir(pick) ==
    Dir(<<P(".year", Dir(<<P("classes.json", JsonFile(Secret))>>)),
          P("LICENSE", TextFile("MIT"))>>
        \o Reverse(YearEntries(pick, 1)))

\* The second vendor holds at most one year: one of Years or an earlier one.
MozDirs ==
    {Absent} \cup { Dir(<<P(year, d)>>) : year \in Years \cup {"2022"}, d \in MozYearDirs }

EmailPlatform ==
    Dir(<<P("ms", Dir(<<P("2020", Dir(<<P("attributes.json",
              JsonFile(Obj(<<P("mso-hide", Str("-ms-hide"))>>)))>>))>>))>>)

RegistryOf(webkit, moz) ==
    Dir(<<P(".gitmodules", TextFile("[submodule]")),
          P("email", EmailPlatform),
          P("browser",
            Dir(<<P(".git", Dir(<<P("config.json", JsonFile(Secret))>>))>>
                \o (IF moz = Absent THEN <<>> ELSE <<P("moz", moz)>>)
                \o <<P("webkit", webkit)>>))>>)

Registries ==
    { RegistryOf(WebkitDir(pick), moz) :
        pick \in [Years -> YearDirs \cup {Absent}], moz \in MozDirs }

\* The registry of the end-to-end example with the vendor level the pivots
\* index: registry/<platform>/<vendor>/<year>/<group>.json
RegistryVendored ==
    Dir(<<P("browser", Dir(<<P("webkit", Dir(<<
            P("2023", Dir(<<P("classes.json", JsonFile(ClassesFoo))>>)),
            P("2024", Dir(<<P("classes.json", JsonFile(ClassesBar))>>))>>))>>))>>)

\* The registry of the end-to-end example as the interface section lays it
\* out: registry/<platform>/<year>/<group>.json
RegistryStated ==
    Dir(<<P("webkit", Dir(<<
            P("2023", Dir(<<P("classes.json", JsonFile(ClassesFoo))>>)),
            P("2024", Dir(<<P("classes.json", JsonFile(ClassesBar))>>))>>))>>)

SiteFiles ==
    <<P("index.html", TextFile("<html>")), P("index.js", TextFile("fetchData('index.json')"))>>

\* The front-end assets: with a subdirectory that holds no JSON, and with
\* one that holds a JSON file.
Sites ==
    { Dir(SiteFiles \o <<P("img", Dir(<<P("logo.svg", TextFile("<svg>"))>>))>>),
      Dir(<<P("index.html", TextFile("<html>")),
            P("data", Dir(<<P("config.json", JsonFile(Obj(<<P("title", Str("x"))>>)))>>)),
            P("index.js", TextFile("fetchData('index.json')"))>>) }

StaleOut == Dir(<<P("index.json", TextFile("{}")), P("old.txt", TextFile("old"))>>)

InitOn(registries) ==
    /\ disk \in [registry : registries, site : Sites, out : {StaleOut}]
    /\ pc = "start"
    /\ objectTree = Undefined /\ switched = Undefined
    /\ finalfiles = Undefined /\ indexmap = Undefined
    /\ platformIdx = 0 /\ index = 0 /\ o1 = Undefined
    /\ filesWritten = 0 /\ exitCode = -1
    /\ mTarget = Undefined /\ mSources = <<>> /\ mBefore = Undefined
    /\ mSource = NoSource /\ mFirst = <<>>
    /\ pvInput = Undefined /\ pvValue = Undefined /\ pvCount = 0

Init == InitOn(Registries \cup {RegistryVendored, Absent})

InitAnyLayout == InitOn(Registries \cup {RegistryVendored, RegistryStated, Absent})

-----------------------------------------------------------------------------
(* The steps of the run *)

\* if (!fs.existsSync(SRC_DIR)) { ...; process.exit(1); }  lines 294-297
RegistryMissing ==
    /\ pc = "start"
    /\ disk.registry = Absent
    /\ pc' = "exit"
    /\ exitCode' = 1
    /\ UNCHANGED <<disk, objectTree, switched, finalfiles, indexmap, platformIdx,
                   index, o1, filesWritten, mergeVars, pivotVars>>

\* const objectTree = createJsonObjectTree(SRC_DIR);  line 302
GenerateTree ==
    /\ pc = "start"
    /\ disk.registry # Absent
    /\ objectTree' = createJsonObjectTree(disk.registry)
    /\ pc' = "switch"
    /\ UNCHANGED <<disk, switched, finalfiles, indexmap, platformIdx, index, o1,
                   filesWritten, exitCode, mergeVars, pivotVars>>

\* const switched = ...;  lines 303-321
Pivots ==
    /\ pc = "switch"
    /\ switched' = Switch(objectTree)
    /\ pc' = "site"
    /\ UNCHANGED <<disk, objectTree, finalfiles, indexmap, platformIdx, index, o1,
                   filesWritten, exitCode, mergeVars, pivotVars>>

\* const indexmap = {}; const finalfiles = createFileTree(SITE);  lines 331-332
LoadSite ==
    /\ pc = "site"
    /\ indexmap' = EmptyObject
    /\ finalfiles' = createFileTree(disk.site)
    /\ pc' = "platforms"
    /\ UNCHANGED <<disk, objectTree, switched, platformIdx, index, o1,
                   filesWritten, exitCode, mergeVars, pivotVars>>

PlatformAt(i) == switched.e[i].k
YearsAt(i) == switched.e[i].v

\* One call of the forEach callback up to the reduce, lines 333-339
BeginPlatform ==
    /\ pc = "platforms"
    /\ platformIdx < Len(switched.e)
    /\ platformIdx' = platformIdx + 1
    /\ indexmap' = Put(indexmap, PlatformAt(platformIdx + 1),
                       Obj(<<P("from", EmptyObject), P("last", EmptyObject)>>))
    /\ index' = 0
    /\ o1' = EmptyObject
    /\ pc' = IF Len(YearOrder(YearsAt(platformIdx + 1))) = 0 THEN "platforms" ELSE "years"
    /\ UNCHANGED <<disk, objectTree, switched, finalfiles, filesWritten, exitCode,
                   mergeVars, pivotVars>>

\* One call of the reduce callback over the years, lines 339-353
FoldYear ==
    /\ pc = "years"
    /\ LET platform == PlatformAt(platformIdx)
           years == YearsAt(platformIdx)
           order == YearOrder(years)
           year == order[index + 1]
           renamed == RenameGroups(Get(years, year).e, 1, EmptyObject)
           merged == deepMerge(o1, <<renamed>>)
           fromfilename == fromName(platform, year)
           lastfilename == lastName(platform, index + 1)
           entry == Get(indexmap, platform)
       IN IF renamed = Thrown
          THEN /\ pc' = "caught"
               /\ UNCHANGED <<o1, indexmap, finalfiles, index>>
          ELSE /\ o1' = merged
               /\ indexmap' =
                    Put(indexmap, platform,
                        Put(Put(entry, "from", Put(Get(entry, "from"), year, Str(fromfilename))),
                            "last",
                            Put(Get(entry, "last"), lastLabel(index + 1), Str(lastfilename))))
               /\ finalfiles' =
                    Put(Put(finalfiles, fromfilename, Str(JSONstringify(merged))),
                        lastfilename, Str(JSONstringify(merged)))
               /\ index' = index + 1
               /\ pc' = IF index + 1 = Len(order) THEN "platforms" ELSE "years"
    /\ UNCHANGED <<disk, objectTree, switched, platformIdx, filesWritten, exitCode,
                   mergeVars, pivotVars>>

\* finalfiles["index.json"] = JSON.stringify(indexmap)  line 356
WriteIndex ==
    /\ pc = "platforms"
    /\ platformIdx = Len(switched.e)
    /\ finalfiles' = Put(finalfiles, "index.json", Str(JSONstringify(indexmap)))
    /\ pc' = "publish"
    /\ UNCHANGED <<disk, objectTree, switched, indexmap, platformIdx, index, o1,
                   filesWritten, exitCode, mergeVars, pivotVars>>

\* publishPathContent(finalfiles, OUT), lines 82-131 and 357: the target is
\* cleared, then the entries are written in order; the first rejected write
\* throws and leaves the files written so far.
Publish ==
    /\ pc = "publish"
    /\ LET done == WriteFiles(finalfiles.e, 1, EmptyObject)
       IN /\ disk' = [disk EXCEPT !.out =
                        Dir([i \in DOMAIN done.dir.e |->
                               P(done.dir.e[i].k, TextFile(done.dir.e[i].v.s))])]
          /\ filesWritten' = Len(done.dir.e)
          /\ pc' = IF done.threw THEN "caught" ELSE "exit"
          /\ exitCode' = IF done.threw THEN exitCode ELSE 0
    /\ UNCHANGED <<objectTree, switched, finalfiles, indexmap, platformIdx, index, o1,
                   mergeVars, pivotVars>>

\* catch (error) { ...; process.exit(1); }  lines 359-362
Catch ==
    /\ pc = "caught"
    /\ exitCode' = 1
    /\ pc' = "exit"
    /\ UNCHANGED <<disk, objectTree, switched, finalfiles, indexmap, platformIdx,
                   index, o1, filesWritten, mergeVars, pivotVars>>

Next ==
    \/ RegistryMissing
    \/ GenerateTree
    \/ Pivots
    \/ LoadSite
    \/ BeginPlatform
    \/ FoldYear
    \/ WriteIndex
    \/ Publish
    \/ Catch

Spec == Init /\ [][Next]_vars

SpecAnyLayout == InitAnyLayout /\ [][Next]_vars

-----------------------------------------------------------------------------
(* Values compared as mappings: the same keys with the same values, whatever *)
(* the enumeration order.                                                     *)

RECURSIVE SameMapping(_, _)
SameMapping(x, y) ==
    IF x.t = "o" /\ y.t = "o"
    THEN /\ KeySet(x) = KeySet(y)
         /\ \A key \in KeySet(x) : SameMapping(Get(x, key), Get(y, key))
    ELSE x = y

-----------------------------------------------------------------------------
(* deepMerge applied to bounded arguments, one call of the recursion over    *)
(* the rest parameter per step.                                              *)

MergeValues ==
    { Num(1), Num(2), Arr(<<Num(1), Num(2)>>), Arr(<<Num(3)>>),
      Obj(<<P("x", Num(1))>>), Obj(<<P("y", Num(2))>>), Obj(<<P("x", Num(2))>>),
      Obj(<<P("x", Obj(<<P("y", Num(2))>>))>>),
      Obj(<<P("x", Obj(<<P("x", Num(1))>>))>>) }

MergeObjects ==
    {EmptyObject}
      \cup { Obj(<<P("a", val)>>) : val \in MergeValues }
      \cup { Obj(<<P("a", Num(1)), P("b", Obj(<<P("x", Num(1))>>))>>) }

RECURSIVE SeqsUpTo(_, _)
SeqsUpTo(S, n) ==
    IF n = 0 THEN {<<>>}
    ELSE LET shorter == SeqsUpTo(S, n - 1)
         IN shorter \cup {Append(q, x) : q \in {r \in shorter : Len(r) = n - 1}, x \in S}

InitMerge ==
    /\ pc = "merge"
    /\ mTarget \in MergeObjects
    /\ mSources \in SeqsUpTo(MergeObjects, MaxSources)
    /\ mBefore = mTarget
    /\ mSource = NoSource
    /\ mFirst = <<mTarget, mSources>>
    /\ disk = [registry |-> Absent, site |-> Absent, out |-> Absent]
    /\ objectTree = Undefined /\ switched = Undefined
    /\ finalfiles = Undefined /\ indexmap = Undefined
    /\ platformIdx = 0 /\ index = 0 /\ o1 = Undefined
    /\ filesWritten = 0 /\ exitCode = -1
    /\ pvInput = Undefined /\ pvValue = Undefined /\ pvCount = 0

\* One call with a non-empty rest parameter: lines 260-286.
MergeCall ==
    /\ pc = "merge"
    /\ Len(mSources) > 0
    /\ mBefore' = mTarget
    /\ mSource' = Head(mSources)
    /\ mTarget' = MergeSource(mTarget, Head(mSources), 1)
    /\ mSources' = Tail(mSources)
    /\ UNCHANGED <<pc, mFirst, buildVars, pivotVars>>

\* if (!sources.length) return target;  line 257
MergeReturn ==
    /\ pc = "merge"
    /\ Len(mSources) = 0
    /\ pc' = "merged"
    /\ UNCHANGED <<mergeVars, buildVars, pivotVars>>

NextMerge == MergeCall \/ MergeReturn

SpecMerge == InitMerge /\ [][NextMerge]_vars

-----------------------------------------------------------------------------
(* inverseNestedObject applied up to twice to bounded two-level mappings.    *)

OuterNames == <<"a", "b", "c", "d">>
OuterKeys == {OuterNames[i] : i \in 1..MaxOuter}

InnerObjects ==
    { EmptyObject,
      Obj(<<P("x", Str("1"))>>),
      Obj(<<P("x", Str("2"))>>),
      Obj(<<P("y", Str("1"))>>),
      Obj(<<P("x", Str("1")), P("y", Str("2"))>>),
      Obj(<<P("y", Str("2")), P("z", Str("1"))>>),
      Obj(<<P("7", Str("2")), P("w", Str("1"))>>),
      Obj(<<P("toString", Str("1"))>>) }

\* The sequences of distinct outer keys, each with an inner mapping.
RECURSIVE TwoLevelEntries(_)
TwoLevelEntries(n) ==
    IF n = 0 THEN {<<>>}
    ELSE LET shorter == TwoLevelEntries(n - 1)
         IN shorter \cup
            { Append(q, P(key, inner)) :
                q \in {r \in shorter : Len(r) = n - 1},
                key \in OuterKeys, inner \in InnerObjects }

TwoLevelEntriesOK(es) == \A i, j \in DOMAIN es : i # j => es[i].k # es[j].k

InitPivot ==
    /\ pc = "pivot"
    /\ pvInput \in { Obj(es) : es \in {q \in TwoLevelEntries(MaxOuter) : TwoLevelEntriesOK(q)} }
    /\ pvValue = pvInput
    /\ pvCount = 0
    /\ disk = [registry |-> Absent, site |-> Absent, out |-> Absent]
    /\ objectTree = Undefined /\ switched = Undefined
    /\ finalfiles = Undefined /\ indexmap = Undefined
    /\ platformIdx = 0 /\ index = 0 /\ o1 = Undefined
    /\ filesWritten = 0 /\ exitCode = -1
    /\ mTarget = Undefined /\ mSources = <<>> /\ mBefore = Undefined
    /\ mSource = NoSource /\ mFirst = <<>>

Pivot ==
    /\ pc = "pivot"
    /\ pvCount < 2
    /\ pvValue' = inverseNestedObject(pvValue)
    /\ pvCount' = pvCount + 1
    /\ UNCHANGED <<pc, pvInput, buildVars, mergeVars>>

NextPivot == Pivot

SpecPivot == InitPivot /\ [][NextPivot]_vars

-----------------------------------------------------------------------------
(* Claims about deepMerge (SpecMerge) *)

\* What the contract says of one source merged into one target, key by key.
RECURSIVE MergedAsSpecified(_, _, _)
MergedAsSpecified(target, source, result) ==
    /\ result.t = "o"
    /\ KeySet(result) = KeySet(target) \cup KeySet(source)
    /\ \A key \in KeySet(result) :
         LET sourceValue == Get(source, key)
             targetValue == Get(target, key)
             resultValue == Get(result, key)
         IN IF ~Has(source, key) THEN resultValue = targetValue
            ELSE IF sourceValue.t = "o" /\ targetValue.t = "o"
            THEN MergedAsSpecified(targetValue, sourceValue, resultValue)
            ELSE resultValue = sourceValue

A1 == Obj(<<P("a", Num(1))>>)
A2 == Obj(<<P("a", Num(2))>>)
AX1 == Obj(<<P("a", Obj(<<P("x", Num(1))>>))>>)
AY2 == Obj(<<P("a", Obj(<<P("y", Num(2))>>))>>)
AX1Y2 == Obj(<<P("a", Obj(<<P("x", Num(1)), P("y", Num(2))>>))>>)
A12 == Obj(<<P("a", Arr(<<Num(1), Num(2)>>))>>)
A3 == Obj(<<P("a", Arr(<<Num(3)>>))>>)

MergeExample(first, then, result) ==
    /\ mFirst = <<first, <<then>>>> => mTarget = result
    /\ mFirst = <<EmptyObject, <<first, then>>>> => mTarget = result

\* C6: deepMerge folds its sources left to right into target; each call leaves
\* target as the contract says, key by key (both mappings: merged recursively;
\* only the source a mapping: a copy of it; otherwise the source's value, arrays
\* included, replaces the target's; keys only in target are kept), the rest
\* parameter shrinks from the left, and the three examples of the contract give
\* {a:2}, {a:{x:1,y:2}} and {a:[3]}.
C6_DeepMergeContract ==
    /\ (pc \in {"merge", "merged"} /\ mSource # NoSource) =>
          /\ MergedAsSpecified(mBefore, mSource, mTarget)
          /\ \E n \in 1..Len(mFirst[2]) :
                /\ mSource = mFirst[2][n]
                /\ mSources = SubSeq(mFirst[2], n + 1, Len(mFirst[2]))
    /\ pc = "merged" =>
          /\ mSources = <<>>
          /\ mFirst[2] = <<>> => mTarget = mFirst[1]
          /\ MergeExample(A1, A2, A2)
          /\ MergeExample(AX1, AY2, AX1Y2)
          /\ MergeExample(A12, A3, A3)

\* C6 witness: {a:{x:1}} then {a:{y:2}} has been merged, from an empty target.
C6_Witness ==
    /\ pc = "merged"
    /\ mFirst = <<EmptyObject, <<AX1, AY2>>>>
    /\ mTarget = AX1Y2

-----------------------------------------------------------------------------
(* Claims about inverseNestedObject (SpecPivot) *)

InnerOf(m, outer) == Get(m, outer)

\* No inner key occurs under two outer keys.
GloballyUniqueInner(m) ==
    \A o1k, o2k \in KeySet(m) :
        o1k # o2k => KeySet(InnerOf(m, o1k)) \cap KeySet(InnerOf(m, o2k)) = {}

NoEmptyInner(m) == \A outer \in KeySet(m) : KeySet(InnerOf(m, outer)) # {}

NoInheritedKey(m) ==
    /\ KeySet(m) \cap InheritedKeys = {}
    /\ \A outer \in KeySet(m) : KeySet(InnerOf(m, outer)) \cap InheritedKeys = {}

-----------------------------------------------------------------------------
(* The registry read off the disk, for the claims about the build            *)

DirNames(node) ==
    {node.e[i].k : i \in {j \in DOMAIN node.e :
                            node.e[j].v.t = "dir" /\ SubSeq(node.e[j].k, 1, 1) # "."}}
Child(node, name) == node.e[CHOOSE i \in DOMAIN node.e : node.e[i].k = name].v
HasChild(node, name) == \E i \in DOMAIN node.e : node.e[i].k = name

\* A directory with a readable .json file below it that no dot-prefixed name
\* hides.
RECURSIVE JsonBearing(_)
JsonBearing(node) ==
    \E i \in DOMAIN node.e :
        /\ SubSeq(node.e[i].k, 1, 1) # "."
        /\ \/ node.e[i].v.t = "dir" /\ JsonBearing(node.e[i].v)
           \/ /\ node.e[i].v.t = "file"
              /\ Len(node.e[i].k) >= 5
              /\ SubSeq(node.e[i].k, Len(node.e[i].k) - 4, Len(node.e[i].k)) = ".json"
              /\ node.e[i].v.e # <<>>

PlatformsOnDisk == IF disk.registry.t = "dir" THEN DirNames(disk.registry) ELSE {}
VendorsOnDisk(platform) == DirNames(Child(disk.registry, platform))
\* The year directories of a platform: registry/<platform>/<vendor>/<year>
YearsOnDisk(platform) ==
    { year \in UNION { DirNames(Child(Child(disk.registry, platform), vendor)) :
                         vendor \in VendorsOnDisk(platform) } :
        \E vendor \in VendorsOnDisk(platform) :
            LET v == Child(Child(disk.registry, platform), vendor)
            IN HasChild(v, year) /\ Child(v, year).t = "dir" /\ JsonBearing(Child(v, year)) }

KthLatest(S, k) == CHOOSE y \in S : Cardinality({z \in S : NumVal(z) > NumVal(y)}) = k - 1

FromFile(platform, year) == "platform/" \o platform \o "--from-" \o year \o ".json"
LastFile(platform, k) == "platform/" \o platform \o "--last-000" \o ToString(k) \o ".json"

\* The snapshot fold has run to its end and the manifest is in the file map.
ManifestBuilt ==
    \/ pc = "publish"
    \/ pc \in {"caught", "exit"} /\ finalfiles.t = "o" /\ Has(finalfiles, "index.json")

Published == pc = "exit" /\ exitCode = 0
OutText(path) == Child(disk.out, path).s
Emitted(path, text) ==
    /\ Has(finalfiles, path)
    /\ Get(finalfiles, path) = Str(text)
    /\ Published => HasChild(disk.out, path) /\ OutText(path) = text

HasPrefix(text, prefix) ==
    Len(text) >= Len(prefix) /\ SubSeq(text, 1, Len(prefix)) = prefix

Contains(text, part) ==
    \E i \in 1..(Len(text) - Len(part) + 1) : SubSeq(text, i, i + Len(part) - 1) = part

\* The keys of the outermost mapping of a serialized JSON text: the strings
\* at nesting depth 1 that a colon follows. (No string of the model holds a
\* quote, a brace or a bracket.)
TopLevelKeys(text) ==
    LET at(i) == SubSeq(text, i, i)
        quotes == {i \in 1..Len(text) : at(i) = "\""}
        opens == {i \in 1..Len(text) : at(i) = "{" \/ at(i) = "["}
        closes == {i \in 1..Len(text) : at(i) = "}" \/ at(i) = "]"}
        depth(i) == Cardinality({j \in opens : j < i}) - Cardinality({j \in closes : j < i})
        opening == {i \in quotes : Cardinality({j \in quotes : j < i}) % 2 = 0}
        closing(i) == CHOOSE j \in quotes : j > i /\ \A m \in quotes : m > i => j <= m
    IN { SubSeq(text, i + 1, closing(i) - 1) :
           i \in {j \in opening : depth(j) = 1 /\ closing(j) < Len(text)
                                    /\ at(closing(j) + 1) = ":"} }

-----------------------------------------------------------------------------
(* Claims about the build *)

\* C1 as stated: on the registry webkit/2023/classes.json = {"foo":"-webkit-foo"},
\* webkit/2024/classes.json = {"bar":"-webkit-bar"} (registry/<platform>/<year>/
\* <group>.json) the run emits platform/webkit--from-2024.json with
\* {"classes":{"bar":"-webkit-bar"}}, platform/webkit--from-2023.json with
\* {"classes":{"foo":"-webkit-foo","bar":"-webkit-bar"}}, and an index.json whose
\* webkit.from["2023"] and webkit.from["2024"] name the two files.
C1_EndToEndAsStated ==
    (disk.registry = RegistryStated /\ ManifestBuilt) =>
        /\ Emitted("platform/webkit--from-2024.json", "{\"classes\":{\"bar\":\"-webkit-bar\"}}")
        /\ Emitted("platform/webkit--from-2023.json",
                   "{\"classes\":{\"foo\":\"-webkit-foo\",\"bar\":\"-webkit-bar\"}}")
        /\ Emitted("index.json", JSONstringify(indexmap))
        /\ Get(Get(Get(indexmap, "webkit"), "from"), "2023")
             = Str("platform/webkit--from-2023.json")
        /\ Get(Get(Get(indexmap, "webkit"), "from"), "2024")
             = Str("platform/webkit--from-2024.json")

\* C1 amended: on the registry browser/webkit/2023/classes.json =
\* {"foo":"-webkit-foo"}, browser/webkit/2024/classes.json = {"bar":"-webkit-bar"}
\* (registry/<platform>/<vendor>/<year>/<group>.json) the run puts into the
\* file map it publishes platform/browser--from-2024.json with
\* {"classes":{"bar":{"webkit":"-webkit-bar"}}}, platform/browser--from-2023.json
\* with {"classes":{"bar":{"webkit":"-webkit-bar"},"foo":{"webkit":"-webkit-foo"}}},
\* and an index.json whose browser.from["2023"] and browser.from["2024"] name
\* the two files; a run that publishes writes them with that content.
C1_EndToEnd ==
    /\ (disk.registry = RegistryVendored /\ pc \in {"caught", "exit"}) => ManifestBuilt
    /\ (disk.registry = RegistryVendored /\ ManifestBuilt) =>
        /\ Emitted("platform/browser--from-2024.json",
                   "{\"classes\":{\"bar\":{\"webkit\":\"-webkit-bar\"}}}")
        /\ Emitted("platform/browser--from-2023.json",
                   "{\"classes\":{\"bar\":{\"webkit\":\"-webkit-bar\"},"
                     \o "\"foo\":{\"webkit\":\"-webkit-foo\"}}}")
        /\ Emitted("index.json",
                   "{\"browser\":{\"from\":{\"2023\":\"platform/browser--from-2023.json\","
                     \o "\"2024\":\"platform/browser--from-2024.json\"},"
                     \o "\"last\":{\"1 year\":\"platform/browser--last-0001.json\","
                     \o "\"2 year\":\"platform/browser--last-0002.json\"}}}")
        /\ Get(Get(Get(indexmap, "browser"), "from"), "2023")
             = Str("platform/browser--from-2023.json")
        /\ Get(Get(Get(indexmap, "browser"), "from"), "2024")
             = Str("platform/browser--from-2024.json")

\* C1 witness: the run on the vendored example registry has published.
C1_Witness ==
    /\ disk.registry = RegistryVendored
    /\ Published
    /\ HasChild(disk.out, "platform/browser--from-2023.json")
    /\ filesWritten = 7

\* C2: once the manifest is built, every platform of the registry has a from
\* sub-mapping whose keys are exactly its non-hidden, JSON-bearing year
\* directories and a last sub-mapping with as many entries as it has years;
\* the manifest names no other platform, and index.json is its serialization.
C2_ManifestCompleteness ==
    ManifestBuilt =>
        /\ KeySet(indexmap) = {p \in PlatformsOnDisk : YearsOnDisk(p) # {}}
        /\ \A p \in KeySet(indexmap) :
              /\ KeySet(Get(indexmap, p)) = {"from", "last"}
              /\ KeySet(Get(Get(indexmap, p), "from")) = YearsOnDisk(p)
              /\ Len(Get(Get(indexmap, p), "last").e) = Cardinality(YearsOnDisk(p))
        /\ Emitted("index.json", JSONstringify(indexmap))

\* C2 witness: a manifest is built for a platform that has a year directory
\* with no readable JSON next to two that have some, in two vendors.
C2_Witness ==
    /\ ManifestBuilt
    /\ Cardinality(YearsOnDisk("browser")) = 2
    /\ Cardinality(VendorsOnDisk("browser")) = 2
    /\ \E vendor \in VendorsOnDisk("browser") :
          \E year \in DirNames(Child(Child(disk.registry, "browser"), vendor)) :
              year \notin YearsOnDisk("browser")

\* C3: once the manifest is built, for every platform and every k up to its
\* number of years, platform/<platform>--last-<k, 4 digits>.json is emitted with
\* exactly the content of platform/<platform>--from-<Y_k>.json, Y_k the k-th
\* latest year of the platform, and the manifest's "<k> year" names it.
C3_LastEqualsFrom ==
    ManifestBuilt =>
        \A p \in PlatformsOnDisk : \A k \in 1..Cardinality(YearsOnDisk(p)) :
            LET year == KthLatest(YearsOnDisk(p), k)
            IN /\ Has(finalfiles, LastFile(p, k))
               /\ Has(finalfiles, FromFile(p, year))
               /\ Get(finalfiles, LastFile(p, k)).t = "s"
               /\ Get(finalfiles, LastFile(p, k)) = Get(finalfiles, FromFile(p, year))
               /\ Get(Get(Get(indexmap, p), "last"), ToString(k) \o " year")
                    = Str(LastFile(p, k))
               /\ Published =>
                    /\ HasChild(disk.out, LastFile(p, k))
                    /\ HasChild(disk.out, FromFile(p, year))
                    /\ OutText(LastFile(p, k)) = OutText(FromFile(p, year))

\* C3 witness: a run has published two snapshots of one platform that differ.
C3_Witness ==
    /\ Published
    /\ Cardinality(YearsOnDisk("browser")) = 2
    /\ OutText(LastFile("browser", 1)) # OutText(LastFile("browser", 2))
    /\ OutText(LastFile("browser", 1)) # "{}"

\* The fold has just processed a year of the platform at platformIdx: o1 is
\* the accumulator the year's two files were serialized from.
YearFolded == pc \in {"years", "platforms"} /\ platformIdx > 0 /\ index > 0
FoldedYear == YearOrder(YearsAt(platformIdx))[index]
FoldAborted == pc \in {"caught", "exit"} /\ finalfiles.t = "o" /\ ~Has(finalfiles, "index.json")

KnownGroups == {"atrules.json", "attributes.json", "classes.json", "elements.json",
                "values.json"}
GroupName(group) == SubSeq(group, 1, Len(group) - 5)

\* C4: a group that is not in the fixed lookup is the only thing left out:
\* the fold never aborts the run, and after each year every known group of
\* that year is in the accumulator with all its keys, wherever the unknown
\* group stands among the year's groups.
C4_UnknownGroupOnlyDropped ==
    /\ ~FoldAborted
    /\ YearFolded =>
          LET groups == Get(YearsAt(platformIdx), FoldedYear)
          IN \A group \in KeySet(groups) \cap KnownGroups :
                /\ Has(o1, GroupName(group))
                /\ KeySet(Get(groups, group)) \subseteq KeySet(Get(o1, GroupName(group)))

\* C5: once the manifest is built, for any two years Y_old < Y_new of a
\* platform every top-level key of the from-Y_new snapshot is a top-level key
\* of the from-Y_old snapshot.
C5_CumulativeSuperset ==
    ManifestBuilt =>
        \A p \in PlatformsOnDisk : \A old, new \in YearsOnDisk(p) :
            NumVal(old) < NumVal(new) =>
                /\ Has(finalfiles, FromFile(p, old)) /\ Has(finalfiles, FromFile(p, new))
                /\ TopLevelKeys(Get(finalfiles, FromFile(p, new)).s)
                     \subseteq TopLevelKeys(Get(finalfiles, FromFile(p, old)).s)

\* C5 witness: the older-anchored snapshot of a platform has a top-level key
\* the newer-anchored one lacks, and the newer one has a key.
C5_Witness ==
    /\ ManifestBuilt
    /\ \E old, new \in YearsOnDisk("browser") :
          /\ NumVal(old) < NumVal(new)
          /\ TopLevelKeys(Get(finalfiles, FromFile("browser", new)).s) # {}
          /\ TopLevelKeys(Get(finalfiles, FromFile("browser", old)).s)
               # TopLevelKeys(Get(finalfiles, FromFile("browser", new)).s)

\* No key of a value, at any depth, starts with a dot.
RECURSIVE NoDotKey(_)
NoDotKey(val) ==
    \A i \in DOMAIN val.e : SubSeq(val.e[i].k, 1, 1) # "." /\ NoDotKey(val.e[i].v)

\* C8: nothing of a registry file under a dot-prefixed directory, or of a
\* dot-prefixed file, is in the loaded tree, in an emitted snapshot or in the
\* manifest: no key of the tree starts with a dot at any depth, and no snapshot
\* or manifest text holds a hidden payload or a dot-prefixed key.
C8_HiddenExcluded ==
    /\ objectTree.t = "o" => NoDotKey(objectTree)
    /\ finalfiles.t = "o" =>
          \A i \in DOMAIN finalfiles.e :
              (finalfiles.e[i].k = "index.json" \/ HasPrefix(finalfiles.e[i].k, "platform/"))
                  => /\ finalfiles.e[i].v.t = "s"
                     /\ ~Contains(finalfiles.e[i].v.s, "secret")
                     /\ ~Contains(finalfiles.e[i].v.s, "\".")
                     /\ ~Contains(finalfiles.e[i].k, "--from-.")
    /\ Published =>
          \A i \in DOMAIN disk.out.e :
              /\ ~Contains(disk.out.e[i].v.s, "secret")
              /\ ~Contains(disk.out.e[i].k, "--from-.")

\* C8 witness: a run has published a non-empty snapshot from a registry with
\* a hidden file at the root, hidden directories at platform, vendor and year
\* level and a hidden file at group level.
C8_Witness ==
    /\ Published
    /\ HasChild(disk.registry, ".gitmodules")
    /\ HasChild(Child(disk.registry, "browser"), ".git")
    /\ HasChild(Child(Child(disk.registry, "browser"), "webkit"), ".year")
    /\ \E year \in Years :
          /\ HasChild(Child(Child(disk.registry, "browser"), "webkit"), year)
          /\ HasChild(Child(Child(Child(disk.registry, "browser"), "webkit"), year), ".draft")
    /\ \E year \in Years :
          /\ HasChild(Child(Child(disk.registry, "browser"), "webkit"), year)
          /\ HasChild(Child(Child(Child(disk.registry, "browser"), "webkit"), year),
                      ".draft.json")
    /\ OutText(LastFile("browser", 1)) # "{}"

\* The value registry/<platform>/<vendor>/<year>/<group> holds at key, when
\* the file is there and readable.
LeafOnDisk(platform, vendor, year, group, key) ==
    LET v == Child(Child(disk.registry, platform), vendor)
    IN IF HasChild(v, year) /\ Child(v, year).t = "dir"
          /\ HasChild(Child(v, year), group)
          /\ Child(Child(v, year), group).e # <<>>
       THEN Get(Child(Child(v, year), group).e[1].v, key)
       ELSE Undefined

PayloadKeys == {"foo", "bar", "baz"}

\* C9: when exactly two years of a platform hold different scalars at one key
\* path, the snapshot of every year at or below the older one holds the older
\* year's value, and the snapshot of every year above the older one, up to the
\* newer one, holds the newer year's value.
C9_OlderYearWins ==
    YearFolded =>
        LET p == PlatformAt(platformIdx)
            anchor == FoldedYear
        IN /\ Get(finalfiles, FromFile(p, anchor)) = Str(JSONstringify(o1))
           /\ \A vendor \in VendorsOnDisk(p), group \in KnownGroups \ {"values.json"},
                 key \in PayloadKeys, old, new \in YearsOnDisk(p) :
                 LET oldValue == LeafOnDisk(p, vendor, old, group, key)
                     newValue == LeafOnDisk(p, vendor, new, group, key)
                     held == Get(Get(Get(o1, GroupName(group)), key), vendor)
                 IN (/\ NumVal(old) < NumVal(new)
                     /\ oldValue.t = "s" /\ newValue.t = "s" /\ oldValue # newValue
                     /\ \A other \in YearsOnDisk(p) \ {old, new} :
                           LeafOnDisk(p, vendor, other, group, key).t = "u")
                    => /\ NumVal(anchor) <= NumVal(old) => held = oldValue
                       /\ (NumVal(old) < NumVal(anchor) /\ NumVal(anchor) <= NumVal(new))
                             => held = newValue

\* C10: the file map handed to the Publisher is flat, each value a string, so
\* the Publisher writes every entry and counts as many files as the map has
\* entries.
C10_FlatFileMap ==
    /\ pc = "publish" => \A i \in DOMAIN finalfiles.e : finalfiles.e[i].v.t = "s"
    /\ (ManifestBuilt /\ pc = "exit") =>
          /\ exitCode = 0
          /\ filesWritten = Len(finalfiles.e)

=============================================================================
